---- MODULE Spec2Model ----
(***************************************************************************)
(* Role repository of permify_gorm (repositories/role_repository.go) and   *)
(* its pagination scope, modelled over a relational store:                 *)
(*   roles            the roles table (id -> guard name)                   *)
(*   userRoles        the user_roles join table                            *)
(*   rolePermissions  the role_permissions join table                      *)
(* Every store statement can fail; a failed statement changes nothing.     *)
(***************************************************************************)
EXTENDS Integers, Sequences, FiniteSets, TLC

\* ---------------------------------------------------------------- bounds
MaxRoleID == 2
MaxPermID == 2
MaxUserID == 1
MaxLen == 2
MaxPage == 3
MaxLimit == 2
MaxRows == 2

RoleIDs == 1..MaxRoleID
PermIDs == 1..MaxPermID
UserIDs == 1..MaxUserID
\* "" is the zero value of a Go string.
GuardNames == {"", "admin", "editor"}
Pairs == RoleIDs \X PermIDs

VARIABLES tables, roles, lastID, userRoles, rolePermissions, ret

vars == <<tables, roles, lastID, userRoles, rolePermissions, ret>>
store == <<tables, roles, lastID, userRoles, rolePermissions>>

\* ---------------------------------------------------------------- helpers
Range(s) == {s[i] : i \in DOMAIN s}

SeqsUpTo(S, n) == UNION {[1..k -> S] : k \in 0..n}

Min(a, b) == IF a < b THEN a ELSE b

Max(a, b) == IF a > b THEN a ELSE b

RECURSIVE SumOver(_, _)
SumOver(f, S) ==
    IF S = {} THEN 0
    ELSE LET x == CHOOSE y \in S : TRUE IN f[x] + SumOver(f, S \ {x})

\* A models.Role / models.Permission value as the repository reads it.
RoleRec(id, g) == [ID |-> id, GuardName |-> g]
PermRec(id) == [ID |-> id]
NoRole == RoleRec(0, "")

\* collections.Role / collections.Permission: slices of models.
RoleCollections == SeqsUpTo({RoleRec(i, "") : i \in RoleIDs}, MaxLen)
PermCollections == SeqsUpTo({PermRec(i) : i \in PermIDs}, MaxLen)

\* collection.IDs(): the ID of every element, in order, repeats kept.
IDs(c) == [i \in DOMAIN c |-> c[i].ID]

\* collection.Len(): the number of elements, repeats counted.
CollLen(c) == Len(c)

\* The result of the last call, NoRet before any call.
NoRet ==
    [op |-> "none", roles |-> <<>>, perms |-> <<>>, role |-> NoRole,
     b |-> FALSE, err |-> FALSE, failed |-> FALSE,
     ids |-> <<>>, total |-> 0, key |-> 0, order |-> <<>>,
     pager |-> [nil |-> TRUE, Page |-> 0, Limit |-> 0],
     at |-> "none", guard |-> "", created |-> FALSE, taken |-> FALSE,
     first |-> 0, given |-> {}, expect |-> {}, chain |-> 0, mixed |-> FALSE]

Ret(op) == [NoRet EXCEPT !.op = op]

AllTables == {"roles", "user_roles", "role_permissions"}

\* A statement against table t fails on an injected store fault, or when the
\* table was never migrated.
StmtFails(t, fault) == fault \/ t \notin tables

\* ---------------------------------------------------------------- Controls
\* SELECT count(*) FROM role_permissions
\*   WHERE role_id IN (roleIDs) AND permission_id IN (permIDs)
\* An empty slice renders IN (NULL) and matches no row.
CountRolePermissions(roleIDs, permIDs) ==
    SumOver(rolePermissions,
            {pr \in Pairs : pr[1] \in Range(roleIDs) /\ pr[2] \in Range(permIDs)})

\* A variant that asks every role of rs to hold p.
HasPermissionEvery(rs, p, fault) ==
    LET failed == StmtFails("role_permissions", fault)
        count == IF failed THEN 0 ELSE CountRolePermissions(IDs(rs), <<p.ID>>)
    IN [b |-> count = CollLen(rs), err |-> failed]

\* count stays at its zero value when the statement fails.
HasPermission(rs, p, fault) ==
    LET failed == StmtFails("role_permissions", fault)
        count == IF failed THEN 0 ELSE CountRolePermissions(IDs(rs), <<p.ID>>)
    IN [b |-> count > 0, err |-> failed]

HasAllPermissions(rs, ps, fault) ==
    LET failed == StmtFails("role_permissions", fault)
        count == IF failed THEN 0 ELSE CountRolePermissions(IDs(rs), IDs(ps))
    IN [b |-> CollLen(rs) * CollLen(ps) = count, err |-> failed]

\* A variant that asks for more than one matching row.
HasAnyPermissionsSeveral(rs, ps, fault) ==
    LET failed == StmtFails("role_permissions", fault)
        count == IF failed THEN 0 ELSE CountRolePermissions(IDs(rs), IDs(ps))
    IN [b |-> count > 1, err |-> failed]

HasAnyPermissions(rs, ps, fault) ==
    LET failed == StmtFails("role_permissions", fault)
        count == IF failed THEN 0 ELSE CountRolePermissions(IDs(rs), IDs(ps))
    IN [b |-> count > 0, err |-> failed]

HasPermissionCall ==
    /\ ret.op = "none"
    /\ \E rs \in RoleCollections, p \in PermIDs, fault \in BOOLEAN :
          LET r == HasPermission(rs, PermRec(p), fault)
          IN ret' = [Ret("HasPermission") EXCEPT
                       !.roles = rs, !.perms = <<PermRec(p)>>,
                       !.b = r.b, !.err = r.err,
                       !.failed = StmtFails("role_permissions", fault)]
    /\ UNCHANGED store

HasAllPermissionsCall ==
    /\ ret.op = "none"
    /\ \E rs \in RoleCollections, ps \in PermCollections, fault \in BOOLEAN :
          LET r == HasAllPermissions(rs, ps, fault)
          IN ret' = [Ret("HasAllPermissions") EXCEPT
                       !.roles = rs, !.perms = ps,
                       !.b = r.b, !.err = r.err,
                       !.failed = StmtFails("role_permissions", fault)]
    /\ UNCHANGED store

HasAnyPermissionsCall ==
    /\ ret.op = "none"
    /\ \E rs \in RoleCollections, ps \in PermCollections, fault \in BOOLEAN :
          LET r == HasAnyPermissions(rs, ps, fault)
          IN ret' = [Ret("HasAnyPermissions") EXCEPT
                       !.roles = rs, !.perms = ps,
                       !.b = r.b, !.err = r.err,
                       !.failed = StmtFails("role_permissions", fault)]
    /\ UNCHANGED store

\* The controls read the join table only: every content the primary key
\* (role_id, permission_id) allows is an initial state.
InitControls ==
    /\ tables = AllTables
    /\ roles = <<>>
    /\ lastID = 0
    /\ userRoles = {}
    /\ rolePermissions \in [Pairs -> 0..1]
    /\ ret = NoRet

NextControls ==
    \/ HasPermissionCall
    \/ HasAllPermissionsCall
    \/ HasAnyPermissionsCall

SpecControls == InitControls /\ [][NextControls]_vars

\* Is role id r linked to permission id p?
Linked(r, p) == rolePermissions[<<r, p>>] > 0

\* C1: HasAllPermissions(R, P) is true iff every pair of R x P has a join row.
C1_HasAllIffCrossProduct ==
    (ret.op = "HasAllPermissions" /\ ~ret.err) =>
        (ret.b <=> \A r \in Range(IDs(ret.roles)), p \in Range(IDs(ret.perms)) :
                      Linked(r, p))

\* C2: HasPermission(R, p) is true iff some role of R has a join row to p.
C2_HasPermissionIffSomeRole ==
    (ret.op = "HasPermission" /\ ~ret.err) =>
        (ret.b <=> \E r \in Range(IDs(ret.roles)) : Linked(r, ret.perms[1].ID))

C2_Witness ==
    /\ ret.op = "HasPermission" /\ ~ret.err /\ ret.b
    /\ Len(ret.roles) = 2
    /\ \E r \in Range(IDs(ret.roles)) : ~Linked(r, ret.perms[1].ID)

\* C3: HasAnyPermissions(R, P) is true iff some pair of R x P has a join row.
C3_HasAnyIffSomePair ==
    (ret.op = "HasAnyPermissions" /\ ~ret.err) =>
        (ret.b <=> \E r \in Range(IDs(ret.roles)), p \in Range(IDs(ret.perms)) :
                      Linked(r, p))

C3_Witness ==
    /\ ret.op = "HasAnyPermissions" /\ ~ret.err /\ ret.b
    /\ Len(ret.roles) = 2 /\ Len(ret.perms) = 2
    /\ Cardinality({pr \in Pairs : /\ pr[1] \in Range(IDs(ret.roles))
                                   /\ pr[2] \in Range(IDs(ret.perms))
                                   /\ Linked(pr[1], pr[2])}) = 1
\* ---------------------------------------------------------------- Migrate
\* AutoMigrate(models.Role{}) creates the roles table and the many2many join
\* table of Role.Permissions; AutoMigrate(pivot.UserRoles{}) creates user_roles.
\* err is assigned twice: the second statement's result replaces the first's.
Migrate(fault1, fault2) ==
    LET t1 == IF fault1 THEN tables ELSE tables \cup {"roles", "role_permissions"}
        t2 == IF fault2 THEN t1 ELSE t1 \cup {"user_roles"}
        err1 == fault1
        err2 == fault2
    IN [tables |-> t2, err |-> err2, failed |-> err1 \/ err2]

MigrateCall ==
    /\ \E fault1 \in BOOLEAN, fault2 \in BOOLEAN :
          LET r == Migrate(fault1, fault2)
          IN /\ tables' = r.tables
             /\ ret' = [Ret("Migrate") EXCEPT !.err = r.err, !.failed = r.failed]
    /\ UNCHANGED <<roles, lastID, userRoles, rolePermissions>>

\* ---------------------------------------------------------------- FirstOrCreate
\* The callers build the role to find or create from a name: its ID is zero.
\* The guard name is the stable key of a role (unique per entity type).
GuardNameTaken(g) == \E i \in DOMAIN roles : roles[i] = g

\* Where(models.Role{GuardName: g}) is a struct condition: a zero-valued field
\* adds no condition. FirstOrCreate(role) finds into role, so a non-zero
\* primary key of role is one more condition.
Matching(role) ==
    {i \in DOMAIN roles :
        /\ role.GuardName = "" \/ roles[i] = role.GuardName
        /\ role.ID = 0 \/ i = role.ID}

\* The first match in primary-key order.
FirstOf(S) == CHOOSE i \in S : \A j \in S : i <= j

\* INSERT INTO roles: the id is the next auto-increment value unless the
\* struct carries one.
InsertID(role) == IF role.ID = 0 THEN lastID + 1 ELSE role.ID

InsertFails(role, fault) ==
    \/ StmtFails("roles", fault)
    \/ InsertID(role) \in DOMAIN roles
    \/ GuardNameTaken(role.GuardName)

\* at: "query" fails the SELECT, "insert" fails the INSERT. The result's at
\* names the statement that failed, "none" when none did.
FirstOrCreate(role, at) ==
    IF StmtFails("roles", at = "query")
    THEN [roles |-> roles, lastID |-> lastID, role |-> role, err |-> TRUE,
          created |-> FALSE, at |-> "query"]
    ELSE IF Matching(role) # {}
    THEN LET i == FirstOf(Matching(role))
         IN [roles |-> roles, lastID |-> lastID, role |-> RoleRec(i, roles[i]),
             err |-> FALSE, created |-> FALSE, at |-> "none"]
    ELSE IF InsertFails(role, at = "insert")
    THEN [roles |-> roles, lastID |-> lastID, role |-> role, err |-> TRUE,
          created |-> FALSE, at |-> "insert"]
    ELSE LET i == InsertID(role)
         IN [roles |-> [j \in DOMAIN roles \cup {i} |->
                          IF j = i THEN role.GuardName ELSE roles[j]],
             lastID |-> Max(lastID, i),
             role |-> RoleRec(i, role.GuardName),
             err |-> FALSE, created |-> TRUE, at |-> "none"]

FirstOrCreateCall ==
    /\ \E g \in GuardNames, at \in {"none", "query", "insert"} :
          /\ Matching(RoleRec(0, g)) = {} => lastID < MaxRoleID
          /\ LET r == FirstOrCreate(RoleRec(0, g), at)
                 again == /\ ret.op = "FirstOrCreate" /\ ~ret.err
                          /\ ret.guard = g
             IN /\ roles' = r.roles
                /\ lastID' = r.lastID
                /\ ret' = [Ret("FirstOrCreate") EXCEPT
                             !.guard = g, !.role = r.role,
                             !.err = r.err, !.failed = r.err, !.at = r.at,
                             !.created = r.created,
                             !.taken = GuardNameTaken(g),
                             !.first = IF again THEN ret.role.ID ELSE 0]
    /\ UNCHANGED <<tables, userRoles, rolePermissions>>

\* ---------------------------------------------------------------- user roles
\* The user repository links a user to a stored role (a user_roles row).
AssignRole ==
    /\ "user_roles" \in tables
    /\ \E u \in UserIDs, r \in DOMAIN roles :
          /\ <<u, r>> \notin userRoles
          /\ userRoles' = userRoles \cup {<<u, r>>}
    /\ ret' = Ret("AssignRole")
    /\ UNCHANGED <<tables, roles, lastID, rolePermissions>>

\* ---------------------------------------------------------------- Delete
\* DELETE FROM user_roles WHERE user_roles.role_id = id
DeleteUserRoles(ur, id) == {row \in ur : row[2] # id}

\* DELETE FROM roles WHERE id = id
DeleteRole(rs, id) == [i \in DOMAIN rs \ {id} |-> rs[i]]

\* A variant without the transaction: each statement reaches the store as it
\* runs, and a later failure leaves the earlier deletion in place.
DeleteNoTransaction(role, at) ==
    LET ur1 == DeleteUserRoles(userRoles, role.ID)
        rs2 == DeleteRole(roles, role.ID)
    IN IF StmtFails("user_roles", at = "joins")
       THEN [roles |-> roles, userRoles |-> userRoles, err |-> TRUE, at |-> "joins"]
       ELSE IF StmtFails("roles", at = "role") \/ role.ID = 0
       THEN [roles |-> roles, userRoles |-> ur1, err |-> TRUE, at |-> "role"]
       ELSE IF at = "commit"
       THEN [roles |-> rs2, userRoles |-> ur1, err |-> TRUE, at |-> "commit"]
       ELSE [roles |-> rs2, userRoles |-> ur1, err |-> FALSE, at |-> "none"]

\* A transaction: both statements run on the transaction's view of the store
\* and reach the store on commit; every failure rolls the transaction back.
\* at names the failing step: "joins", "role" or "commit". Deleting a struct
\* whose primary key is zero has no WHERE clause and is refused.
Delete(role, at) ==
    LET rollback(step) ==
            [roles |-> roles, userRoles |-> userRoles, err |-> TRUE, at |-> step]
        ur1 == DeleteUserRoles(userRoles, role.ID)
        rs2 == DeleteRole(roles, role.ID)
    IN IF StmtFails("user_roles", at = "joins") THEN rollback("joins")
       ELSE IF StmtFails("roles", at = "role") \/ role.ID = 0 THEN rollback("role")
       ELSE IF at = "commit" THEN rollback("commit")
       ELSE [roles |-> rs2, userRoles |-> ur1, err |-> FALSE, at |-> "none"]

DeleteCall ==
    /\ \E id \in 0..MaxRoleID, at \in {"none", "joins", "role", "commit"} :
          LET r == Delete(RoleRec(id, ""), at)
          IN /\ roles' = r.roles
             /\ userRoles' = r.userRoles
             /\ ret' = [Ret("Delete") EXCEPT
                          !.role = RoleRec(id, ""), !.err = r.err,
                          !.failed = r.err, !.at = r.at]
    /\ UNCHANGED <<tables, lastID, rolePermissions>>
\* ---------------------------------------------------------------- permissions
\* The permission ids role id holds in join table tbl.
PermissionsOf(tbl, id) == {p \in PermIDs : tbl[<<id, p>>] > 0}

\* Association("Permissions").Append: INSERT INTO role_permissions ... ON CONFLICT
\* DO NOTHING, one row per distinct (role, permission) pair not yet stored.
AssociationAppend(tbl, id, ps) ==
    [pr \in Pairs |->
        IF pr[1] = id /\ pr[2] \in Range(IDs(ps)) /\ tbl[pr] = 0 THEN 1 ELSE tbl[pr]]

\* DELETE FROM role_permissions WHERE role_id = id AND permission_id NOT IN (ps);
\* without the NOT IN condition when ps is empty.
AssociationDeleteNotIn(tbl, id, ps) ==
    [pr \in Pairs |->
        IF pr[1] = id /\ pr[2] \notin Range(IDs(ps)) THEN 0 ELSE tbl[pr]]

\* DELETE FROM role_permissions WHERE role_id = id AND permission_id IN (ps)
AssociationDeleteIn(tbl, id, ps) ==
    [pr \in Pairs |->
        IF pr[1] = id /\ pr[2] \in Range(IDs(ps)) THEN 0 ELSE tbl[pr]]

\* A variant that inserts one row per given permission, held or not.
AddPermissionsPlainInsert(role, ps, fault) ==
    IF StmtFails("role_permissions", fault)
    THEN [tbl |-> rolePermissions, err |-> TRUE]
    ELSE [tbl |-> [pr \in Pairs |->
                     rolePermissions[pr] +
                     Cardinality({i \in DOMAIN ps :
                                     pr[1] = role.ID /\ pr[2] = ps[i].ID})],
          err |-> FALSE]

AddPermissions(role, ps, fault) ==
    IF StmtFails("role_permissions", fault)
    THEN [tbl |-> rolePermissions, err |-> TRUE]
    ELSE [tbl |-> AssociationAppend(rolePermissions, role.ID, ps), err |-> FALSE]

\* A variant that appends and never deletes.
ReplacePermissionsAppendOnly(role, ps, at) ==
    IF StmtFails("role_permissions", at = "insert")
    THEN [tbl |-> rolePermissions, err |-> TRUE]
    ELSE [tbl |-> AssociationAppend(rolePermissions, role.ID, ps),
          err |-> at = "delete"]

\* Replace appends the given permissions, then deletes the role's other rows.
\* at names the failing statement: "insert" or "delete".
ReplacePermissions(role, ps, at) ==
    IF StmtFails("role_permissions", at = "insert")
    THEN [tbl |-> rolePermissions, err |-> TRUE]
    ELSE LET appended == AssociationAppend(rolePermissions, role.ID, ps)
         IN IF at = "delete"
            THEN [tbl |-> appended, err |-> TRUE]
            ELSE [tbl |-> AssociationDeleteNotIn(appended, role.ID, ps),
                  err |-> FALSE]

RemovePermissions(role, ps, fault) ==
    IF StmtFails("role_permissions", fault)
    THEN [tbl |-> rolePermissions, err |-> TRUE]
    ELSE [tbl |-> AssociationDeleteIn(rolePermissions, role.ID, ps), err |-> FALSE]

\* Clear is Replace with no values.
ClearPermissions(role, fault) ==
    IF StmtFails("role_permissions", fault)
    THEN [tbl |-> rolePermissions, err |-> TRUE]
    ELSE [tbl |-> AssociationDeleteNotIn(rolePermissions, role.ID, <<>>),
          err |-> FALSE]

\* What an association call leaves in ret.
AssocRet(op, id, r) ==
    [Ret(op) EXCEPT !.role = RoleRec(id, roles[id]), !.err = r.err, !.failed = r.err]

\* expect is the union of the role's set before the first of a run of
\* successful AddPermissions calls on one role and of every set given since;
\* chain is the length of that run, counted up to 2; mixed tells that the call
\* was given a permission the role held and one it did not hold.
AddPermissionsCall ==
    /\ \E id \in DOMAIN roles, ps \in PermCollections, fault \in BOOLEAN :
          LET r == AddPermissions(RoleRec(id, roles[id]), ps, fault)
              prior == PermissionsOf(rolePermissions, id)
              given == Range(IDs(ps))
              again == /\ ret.op = "AddPermissions" /\ ~ret.err
                       /\ ret.role.ID = id
              base == IF again THEN ret.expect ELSE prior
          IN /\ rolePermissions' = r.tbl
             /\ ret' = [AssocRet("AddPermissions", id, r) EXCEPT
                          !.expect = base \cup given,
                          !.chain = IF again THEN 2 ELSE 1,
                          !.mixed = given \cap prior # {} /\ given \ prior # {}]
    /\ UNCHANGED <<tables, roles, lastID, userRoles>>

\* given is the set of permission ids passed; mixed tells that the role held a
\* permission outside given and lacked one of given.
ReplacePermissionsCall ==
    /\ \E id \in DOMAIN roles, ps \in PermCollections,
          at \in {"none", "insert", "delete"} :
          LET r == ReplacePermissions(RoleRec(id, roles[id]), ps, at)
              prior == PermissionsOf(rolePermissions, id)
              given == Range(IDs(ps))
          IN /\ rolePermissions' = r.tbl
             /\ ret' = [AssocRet("ReplacePermissions", id, r) EXCEPT
                          !.given = given,
                          !.mixed = prior \ given # {} /\ given \ prior # {}]
    /\ UNCHANGED <<tables, roles, lastID, userRoles>>

RemovePermissionsCall ==
    /\ \E id \in DOMAIN roles, ps \in PermCollections, fault \in BOOLEAN :
          LET r == RemovePermissions(RoleRec(id, roles[id]), ps, fault)
          IN /\ rolePermissions' = r.tbl
             /\ ret' = AssocRet("RemovePermissions", id, r)
    /\ UNCHANGED <<tables, roles, lastID, userRoles>>

ClearPermissionsCall ==
    /\ \E id \in DOMAIN roles, fault \in BOOLEAN :
          LET r == ClearPermissions(RoleRec(id, roles[id]), fault)
          IN /\ rolePermissions' = r.tbl
             /\ ret' = AssocRet("ClearPermissions", id, r)
    /\ UNCHANGED <<tables, roles, lastID, userRoles>>

\* ---------------------------------------------------------------- the repository
\* A fresh store: nothing migrated, no rows.
Init ==
    /\ tables = {}
    /\ roles = <<>>
    /\ lastID = 0
    /\ userRoles = {}
    /\ rolePermissions = [pr \in Pairs |-> 0]
    /\ ret = NoRet

Next ==
    \/ MigrateCall
    \/ FirstOrCreateCall
    \/ AssignRole
    \/ DeleteCall
    \/ AddPermissionsCall
    \/ ReplacePermissionsCall
    \/ RemovePermissionsCall
    \/ ClearPermissionsCall

Spec == Init /\ [][Next]_vars

\* The life cycle of role rows and of their user links; the permission join
\* table stays empty.
NextRoles ==
    \/ MigrateCall
    \/ FirstOrCreateCall
    \/ AssignRole
    \/ DeleteCall

SpecRoles == Init /\ [][NextRoles]_vars

\* The association operations on a store whose roles all exist, from every
\* content of the join table its primary key allows.
InitPermissions ==
    /\ tables = AllTables
    /\ roles = CHOOSE f \in [RoleIDs -> GuardNames] :
                  \A i, j \in RoleIDs : f[i] = f[j] => i = j
    /\ lastID = MaxRoleID
    /\ userRoles = {}
    /\ rolePermissions \in [Pairs -> 0..1]
    /\ ret = NoRet

\* One association call, or two AddPermissions calls in a row.
NextPermissions ==
    \/ ret.op = "none" /\ AddPermissionsCall
    \/ ret.op = "none" /\ ReplacePermissionsCall
    \/ ret.op = "none" /\ RemovePermissionsCall
    \/ ret.op = "none" /\ ClearPermissionsCall
    \/ ret.op = "AddPermissions" /\ ret.chain = 1 /\ ~ret.err /\ AddPermissionsCall

SpecPermissions == InitPermissions /\ [][NextPermissions]_vars
\* ---------------------------------------------------------------- ID fetch
\* A scopes.GormPager argument: nil, or a GormPagination of page and limit.
Pagers ==
    {[nil |-> TRUE, Page |-> 0, Limit |-> 0]} \cup
    {[nil |-> FALSE, Page |-> p, Limit |-> l] : p \in 1..MaxPage, l \in 1..MaxLimit}

\* helpers.OffsetCal: (page - 1) * limit, never negative.
OffsetCal(page, limit) == Max(0, (page - 1) * limit)

\* OFFSET off LIMIT lim over the rows in the order the store yields them.
OffsetLimit(rows, off, lim) == SubSeq(rows, off + 1, Min(Len(rows), off + lim))

\* A variant that takes the page number for the offset.
ToPaginatePageAsOffset(pager, rows) == OffsetLimit(rows, pager.Page, pager.Limit)

\* GormPagination.ToPaginate: Offset(OffsetCal(page, limit)).Limit(limit).
ToPaginate(pager, rows) ==
    OffsetLimit(rows, OffsetCal(pager.Page, pager.Limit), pager.Limit)

\* RoleRepository.paginate: the pager's scope, or no scope for a nil pager.
paginate(pager, rows) == IF pager.nil THEN rows ELSE ToPaginate(pager, rows)

\* The orders in which the store may yield the rows S: no ORDER BY is given.
Orders(S) == {o \in [1..Cardinality(S) -> S] : Range(o) = S}

\* Count(&totalCount) runs first, on the unpaginated query; Pluck then runs
\* the same query with the pagination scope. at names the failing statement.
CountThenPluck(table, order, pager, at) ==
    IF StmtFails(table, at = "count")
    THEN [ids |-> <<>>, total |-> 0, err |-> TRUE]
    ELSE IF at = "pluck"
    THEN [ids |-> <<>>, total |-> Len(order), err |-> TRUE]
    ELSE [ids |-> paginate(pager, order), total |-> Len(order), err |-> FALSE]

\* SELECT roles.id FROM roles
RoleRows == DOMAIN roles

\* SELECT user_roles.role_id FROM user_roles WHERE user_roles.user_id = u
RoleRowsOfUser(u) == {r \in RoleIDs : <<u, r>> \in userRoles}

\* SELECT role_permissions.role_id FROM role_permissions
\*   WHERE role_permissions.permission_id = p
RoleRowsOfPermission(p) == {r \in RoleIDs : rolePermissions[<<r, p>>] > 0}

GetRoleIDs(order, pager, at) == CountThenPluck("roles", order, pager, at)

GetRoleIDsOfUser(order, pager, at) == CountThenPluck("user_roles", order, pager, at)

GetRoleIDsOfPermission(order, pager, at) ==
    CountThenPluck("role_permissions", order, pager, at)

FetchRet(op, key, order, pager, r) ==
    [Ret(op) EXCEPT !.key = key, !.order = order, !.pager = pager,
                    !.ids = r.ids, !.total = r.total,
                    !.err = r.err, !.failed = r.err]

Faults == {"none", "count", "pluck"}

GetRoleIDsCall ==
    /\ ret.op = "none"
    /\ \E pager \in Pagers, at \in Faults, order \in Orders(RoleRows) :
          ret' = FetchRet("GetRoleIDs", 0, order, pager,
                          GetRoleIDs(order, pager, at))
    /\ UNCHANGED store

GetRoleIDsOfUserCall ==
    /\ ret.op = "none"
    /\ \E u \in UserIDs, pager \in Pagers, at \in Faults :
          \E order \in Orders(RoleRowsOfUser(u)) :
             ret' = FetchRet("GetRoleIDsOfUser", u, order, pager,
                             GetRoleIDsOfUser(order, pager, at))
    /\ UNCHANGED store

GetRoleIDsOfPermissionCall ==
    /\ ret.op = "none"
    /\ \E p \in PermIDs, pager \in Pagers, at \in Faults :
          \E order \in Orders(RoleRowsOfPermission(p)) :
             ret' = FetchRet("GetRoleIDsOfPermission", p, order, pager,
                             GetRoleIDsOfPermission(order, pager, at))
    /\ UNCHANGED store

\* Every store of at most MaxRows join rows whose join rows reference stored
\* roles.
InitPaging ==
    /\ tables = AllTables
    /\ \E S \in SUBSET RoleIDs :
          LET f == CHOOSE g \in [RoleIDs -> GuardNames] :
                      \A i, j \in RoleIDs : g[i] = g[j] => i = j
          IN roles = [i \in S |-> f[i]]
    /\ lastID = MaxRoleID
    /\ userRoles \in SUBSET (UserIDs \X DOMAIN roles)
    /\ rolePermissions \in [Pairs -> 0..1]
    /\ \A pr \in Pairs : rolePermissions[pr] > 0 => pr[1] \in DOMAIN roles
    /\ Cardinality(userRoles) + SumOver(rolePermissions, Pairs) <= MaxRows
    /\ ret = NoRet

NextPaging ==
    \/ GetRoleIDsCall
    \/ GetRoleIDsOfUserCall
    \/ GetRoleIDsOfPermissionCall

SpecPaging == InitPaging /\ [][NextPaging]_vars
\* ---------------------------------------------------------------- properties
\* C4: Delete is all-or-nothing. A Delete that returns an error leaves the role
\* rows and both join tables as they were; a Delete that returns no error
\* removes the role row and exactly the user_roles rows referencing it.
C4_DeleteAllOrNothing ==
    [][ret'.op = "Delete" =>
          IF ret'.err
          THEN /\ roles' = roles
               /\ userRoles' = userRoles
               /\ rolePermissions' = rolePermissions
          ELSE /\ ret'.role.ID \notin DOMAIN roles'
               /\ \A i \in DOMAIN roles \ {ret'.role.ID} :
                     i \in DOMAIN roles' /\ roles'[i] = roles[i]
               /\ DOMAIN roles' \subseteq DOMAIN roles
               /\ \A row \in userRoles :
                     row \in userRoles' <=> row[2] # ret'.role.ID]_vars

\* A Delete that failed at the role row, after the join rows were deleted in
\* the transaction, with the role and a user link still stored.
C4_Witness ==
    /\ ret.op = "Delete" /\ ret.err /\ ret.at = "role"
    /\ ret.role.ID \in DOMAIN roles
    /\ \E row \in userRoles : row[2] = ret.role.ID

\* C5: after a successful ReplacePermissions(role, P) the role holds exactly
\* the permissions of P, and the rows of every other role are unchanged.
C5_ReplaceIsExactlyP ==
    [][(ret'.op = "ReplacePermissions" /\ ~ret'.err) =>
          /\ {p \in PermIDs : rolePermissions'[<<ret'.role.ID, p>>] > 0} = ret'.given
          /\ \A pr \in Pairs :
                pr[1] # ret'.role.ID => rolePermissions'[pr] = rolePermissions[pr]]_vars

\* A successful Replace that had to remove a held permission and to add a
\* missing one.
C5_Witness ==
    /\ ret.op = "ReplacePermissions" /\ ~ret.err /\ ret.mixed

\* C6: after successful AddPermissions calls in a row on one role, the role
\* holds the union of its prior set and of every set given, and no
\* (role, permission) pair of the join table has a second row.
C6_AddIsUnion ==
    (ret.op = "AddPermissions" /\ ~ret.err) =>
        /\ {p \in PermIDs : rolePermissions[<<ret.role.ID, p>>] > 0} = ret.expect
        /\ \A pr \in Pairs : rolePermissions[pr] <= 1

\* The second of two successful Adds, given a permission the role holds after
\* the first Add and one it does not hold.
C6_Witness ==
    /\ ret.op = "AddPermissions" /\ ~ret.err /\ ret.chain = 2 /\ ret.mixed

\* C7: FirstOrCreate is idempotent on the guard name. After a second call in
\* a row with one guard name, no store statement failing, exactly one role row
\* has that guard name and the call returns the first call's id; a row is
\* inserted only when no role has the guard name.
C7_FirstOrCreateIdempotent ==
    (ret.op = "FirstOrCreate" /\ ret.at = "none") =>
        /\ ret.created => ~ret.taken
        /\ ret.first # 0 =>
              /\ ~ret.err
              /\ ret.role.ID = ret.first
              /\ Cardinality({i \in DOMAIN roles : roles[i] = ret.guard}) = 1

\* The rows a fetch matches, by the operation and its key.
Matched ==
    CASE ret.op = "GetRoleIDs" -> RoleRows
      [] ret.op = "GetRoleIDsOfUser" -> RoleRowsOfUser(ret.key)
      [] ret.op = "GetRoleIDsOfPermission" -> RoleRowsOfPermission(ret.key)
      [] OTHER -> {}

\* C8: a successful ID fetch returns as totalCount the number of all matching
\* rows; with a pager of page >= 1 and limit >= 1 it returns the matching rows
\* from offset (page-1)*limit on, at most limit of them, and with no pager all
\* of them. The rows are taken in the order the store yields them.
C8_PageAndTotal ==
    (ret.op \in {"GetRoleIDs", "GetRoleIDsOfUser", "GetRoleIDsOfPermission"}
       /\ ~ret.err) =>
        LET off == (ret.pager.Page - 1) * ret.pager.Limit
            n == Cardinality(Matched)
        IN /\ ret.total = n
           /\ Range(ret.order) = Matched /\ Len(ret.order) = n
           /\ IF ret.pager.nil
              THEN ret.ids = ret.order
              ELSE /\ Len(ret.ids) = Max(0, Min(ret.pager.Limit, n - off))
                   /\ \A i \in DOMAIN ret.ids : ret.ids[i] = ret.order[off + i]

\* A second page that holds fewer rows than match.
C8_Witness ==
    /\ ret.op = "GetRoleIDsOfPermission" /\ ~ret.err /\ ~ret.pager.nil
    /\ ret.pager.Page = 2 /\ ret.pager.Limit = 1
    /\ Len(ret.ids) = 1 /\ ret.total = 2

\* C9: no operation swallows a store error: when a statement an operation
\* issued failed, the operation returns an error.
C9_NoErrorSwallowed == ret.failed => ret.err

\* C10: every user_roles row and every role_permissions row references a
\* stored role.
C10_NoOrphans ==
    /\ \A row \in userRoles : row[2] \in DOMAIN roles
    /\ \A pr \in Pairs : rolePermissions[pr] > 0 => pr[1] \in DOMAIN roles
====
